---- MODULE Spec2Model ----
(***************************************************************************)
(* A model of ios.py: the Hinglish lexicon loader, the regex text          *)
(* normalizer, the file classifier, the transcript writer, the per-file    *)
(* audio pipeline and the directory walker.                                *)
(*                                                                         *)
(* Text is a sequence of one-character strings.  "H" stands for a          *)
(* Devanagari letter (a caseless word character), "." for a punctuation    *)
(* character that is also a regex metacharacter, "(" for a character that  *)
(* makes a regex fail to compile when left unescaped.                      *)
(***************************************************************************)
EXTENDS Integers, Sequences, FiniteSets, TLC

VARIABLES
    dataset,            \* the lines of the lexicon dataset file (environment)
    tree,               \* the input file tree (environment)
    HINGLISH_TO_HINDI,  \* the module-level dict, as <<key, value>> pairs in insertion order
    out,                \* output artifacts in the working directory, by output base name
    status,             \* "idle", "running", "completed", "crashed"
    args,               \* the parsed command line of the current run
    walk,               \* directories os.walk has still to yield
    todo,               \* files of the current directory not yet iterated
    pc,                 \* the stage process_file is at
    rec,                \* the transcript record of the file process_file took last
    passed,             \* files handed to process_file in this run
    recogCalls,         \* calls of the recognition collaborator in this run
    detectCalls,        \* calls of the language detector in this run
    transCalls,         \* calls of the translation collaborator in this run
    outcome,            \* how process_file ended for each file of this run
    ptext,              \* preprocess_text: the local variable text
    pprev,              \* preprocess_text: text before the last loop iteration
    pidx,               \* preprocess_text: number of lexicon entries applied
    pin,                \* preprocess_text: the caller's text, as passed in
    lidx,               \* load_hinglish_mapping: number of dataset lines read
    wcall               \* create_transcript_file called on its own: arguments and state

vars == <<dataset, tree, HINGLISH_TO_HINDI, out, status, args, walk, todo, pc,
          rec, passed, recogCalls, detectCalls, transCalls, outcome,
          ptext, pprev, pidx,
                   pin, lidx, wcall>>

pipelineVars == <<tree, out, status, args, walk, todo, pc, rec, passed,
                  recogCalls, detectCalls, transCalls, outcome>>

-----------------------------------------------------------------------------
(* Bounds *)

\* longest text handed to preprocess_text on its own
MaxTextLen == 3

\* most lines of a dataset handed to load_hinglish_mapping on its own
MaxLines == 2

\* most confidence scores handed to create_transcript_file on its own
MaxScores == 3

-----------------------------------------------------------------------------
(* Characters *)

LowerLetters == {"a", "n"}

UpperLetters == {"A", "N"}

\* str.lower() on one character
LowerChar(c) ==
    CASE c = "A" -> "a"
      [] c = "N" -> "n"
      [] OTHER -> c

\* str.lower()
Lower(s) == [i \in 1..Len(s) |-> LowerChar(s[i])]

\* \w of the re module: alphanumeric characters (letters of any script)
IsWordChar(c) == c \in LowerLetters \cup UpperLetters \cup {"H", "e"}

\* \b at offset i of s (between s[i] and s[i+1]; offsets run 0..Len(s))
WordBoundary(s, i) ==
    LET before == i >= 1 /\ IsWordChar(s[i])
        after == i < Len(s) /\ IsWordChar(s[i + 1])
    IN before # after

\* one pattern character against one text character under re.IGNORECASE;
\* an unescaped "." in the pattern matches any character
PatCharMatch(p, c) == p = "." \/ LowerChar(p) = LowerChar(c)

\* re.compile: an unescaped "(" that is never closed is an error
Compiles(key) == \A i \in 1..Len(key) : key[i] # "("

\* r'\b' + key + r'\b' matches s at offset i
MatchAt(s, key, i) ==
    /\ i + Len(key) <= Len(s)
    /\ WordBoundary(s, i)
    /\ \A j \in 1..Len(key) : PatCharMatch(key[j], s[i + j])
    /\ WordBoundary(s, i + Len(key))

\* re.sub scanning from offset i: leftmost, non-overlapping matches replaced
RECURSIVE SubFrom(_, _, _, _)
SubFrom(s, key, repl, i) ==
    IF i > Len(s) THEN <<>>
    ELSE IF MatchAt(s, key, i)
         THEN IF Len(key) > 0
              THEN repl \o SubFrom(s, key, repl, i + Len(key))
              ELSE repl \o (IF i < Len(s) THEN <<s[i + 1]>> ELSE <<>>)
                        \o SubFrom(s, key, repl, i + 1)
         ELSE (IF i < Len(s) THEN <<s[i + 1]>> ELSE <<>>)
                  \o SubFrom(s, key, repl, i + 1)

\* re.sub(r'\b' + hinglish + r'\b', hindi, text, flags=re.IGNORECASE)
ReSub(hinglish, hindi, text) == SubFrom(text, hinglish, hindi, 0)

\* a loop that takes the entries last-inserted first
ItemAtReversed(lex, k) == lex[Len(lex) + 1 - k]

\* the k-th pair HINGLISH_TO_HINDI.items() yields: a dict iterates in insertion order
ItemAt(lex, k) == lex[k]

\* the for loop of preprocess_text over lexicon entries k..Len(lex)
RECURSIVE PreprocessFrom(_, _, _)
PreprocessFrom(lex, text, k) ==
    IF k > Len(lex) THEN text
    ELSE PreprocessFrom(lex, ReSub(ItemAt(lex, k)[1], ItemAt(lex, k)[2], text), k + 1)

\* preprocess_text raises re.error when a key does not compile and is reached
PreprocessRaises(lex) == \E k \in 1..Len(lex) : ~Compiles(lex[k][1])

\* a preprocess_text that pops each entry off the dict as it applies it
PreprocessPops(lex, text) == <<<<>>, text>>

\* what a call preprocess_text(text) leaves of the module-level dict and of the
\* caller's string: it only reads HINGLISH_TO_HINDI.items(), and "text = re.sub(...)"
\* rebinds its own local name to a new str
PreprocessLeaves(lex, text) == <<lex, text>>

preprocess_text(lex, text) == PreprocessFrom(lex, text, 1)

-----------------------------------------------------------------------------
(* Lexicon loader *)

\* a field that json.loads found absent; .get(..., '') turns it into ''
Missing == <<"#missing">>

\* a line json.loads rejects
Malformed == [hi_ng |-> <<"#malformed">>, en |-> <<"#malformed">>]

\* translation.get(field, '')
GetField(v) == IF v = Missing THEN <<>> ELSE v

\* a dict that kept the value it already held (setdefault instead of assignment)
DictSetKeepsFirst(lex, k, v) ==
    IF \E i \in 1..Len(lex) : lex[i][1] = k THEN lex ELSE Append(lex, <<k, v>>)

HasKey(lex, k) == \E i \in 1..Len(lex) : lex[i][1] = k

\* HINGLISH_TO_HINDI[k] = v: a dict keeps the position of a key it already holds
DictSet(lex, k, v) ==
    IF HasKey(lex, k)
    THEN [i \in 1..Len(lex) |-> IF lex[i][1] = k THEN <<k, v>> ELSE lex[i]]
    ELSE Append(lex, <<k, v>>)

\* number of lines read before json.loads raises (all of them when none is malformed)
GoodPrefix(lines) ==
    IF \E i \in 1..Len(lines) : lines[i] = Malformed
    THEN (CHOOSE i \in 1..Len(lines) :
              /\ lines[i] = Malformed
              /\ \A j \in 1..(i - 1) : lines[j] # Malformed) - 1
    ELSE Len(lines)

LoadRaises(lines) == GoodPrefix(lines) < Len(lines)

\* the loop of load_hinglish_mapping over lines 1..n, starting from dict lex
RECURSIVE LoadFrom(_, _, _)
LoadFrom(lex, lines, n) ==
    IF n = 0 THEN lex
    ELSE DictSet(LoadFrom(lex, lines, n - 1),
                 Lower(GetField(lines[n].hi_ng)), GetField(lines[n].en))

load_hinglish_mapping(lex, lines) == LoadFrom(lex, lines, GoodPrefix(lines))

-----------------------------------------------------------------------------
(* Paths and the file classifier *)

\* A path is a directory (a sequence of entry names) and an entry name; an entry
\* name is the sequence of its dot-separated parts: x.wav is <<"x", "wav">>.
P(dir, name) == [dir |-> dir, name |-> name]

NoPath == P(<<>>, <<>>)

Node(dir, name, kind) == [dir |-> dir, name |-> name, kind |-> kind]

PathOf(n) == P(n.dir, n.name)

\* os.path.isfile
is_valid_file(t, p) == \E n \in t : PathOf(n) = p /\ n.kind = "file"

\* os.path.isdir
isdir(t, p) == \E n \in t : PathOf(n) = p /\ n.kind = "dir"

\* os.path.splitext(os.path.basename(p)): <<root parts, extension>>; "" when no dot
splitext(p) ==
    IF Len(p.name) >= 2
    THEN <<SubSeq(p.name, 1, Len(p.name) - 1), p.name[Len(p.name)]>>
    ELSE <<p.name, "">>

\* str.lower() on the extensions that occur
LowerExt(e) ==
    CASE e = "WAV" -> "wav"
      [] e = "MP3" -> "mp3"
      [] OTHER -> e

\* SUPPORTED_FORMATS, each without its leading dot
SUPPORTED_FORMATS == {"m4a", "mp3", "webm", "mp4", "mpga", "wav", "mpeg"}

is_supported_format(p) == LowerExt(splitext(p)[2]) \in SUPPORTED_FORMATS

\* base_filename of create_transcript_file; the output is <base_filename>-transcript.txt
OutputBase(p) == splitext(p)[1]

\* the directory a path names, as the dir field of its entries
AsDir(p) == Append(p.dir, p.name)

\* os.walk's files of one directory: its entries that are not directories
FilesIn(t, d) == {PathOf(n) : n \in {m \in t : m.dir = AsDir(d) /\ m.kind # "dir"}}

\* os.walk's dirs of one directory
DirsIn(t, d) == {PathOf(n) : n \in {m \in t : m.dir = AsDir(d) /\ m.kind = "dir"}}

\* the orders in which a directory listing may give a set of entries
Orders(S) == {s \in [1..Cardinality(S) -> S] : \A x \in S : \E i \in DOMAIN s : s[i] = x}

-----------------------------------------------------------------------------
(* The environment: file trees, datasets, what the collaborators may answer *)

DirA == P(<<>>, <<"A">>)

DirSub == P(AsDir(DirA), <<"sub">>)

DirDWav == P(AsDir(DirA), <<"d", "wav">>)

AXWav == P(AsDir(DirA), <<"x", "wav">>)

AXMp3 == P(AsDir(DirA), <<"x", "MP3">>)

AZOgg == P(AsDir(DirA), <<"z", "ogg">>)

SubYWav == P(AsDir(DirSub), <<"y", "wav">>)

SubXWav == P(AsDir(DirSub), <<"x", "wav">>)

F(p) == Node(p.dir, p.name, "file")

D(p) == Node(p.dir, p.name, "dir")

\* A/x.wav and A/sub/y.wav
TreePlain == {D(DirA), F(AXWav), D(DirSub), F(SubYWav)}

\* inputs that share a base name, in one directory and across directories
TreeSameBase == {D(DirA), F(AXWav), F(AXMp3), D(DirSub), F(SubXWav)}

\* an unsupported file and a directory whose name ends in .wav
TreeMixed == {D(DirA), F(AZOgg), D(DirDWav), D(DirSub), F(SubYWav)}

Trees == {TreePlain, TreeSameBase, TreeMixed}

\* paths a command line may name: entries of the trees, present or not
Paths == {PathOf(n) : n \in UNION Trees}

OutBases == {OutputBase(p) : p \in Paths}

Line(hi_ng, en) == [hi_ng |-> hi_ng, en |-> en]

Datasets ==
    { << Line(<<"N", "a">>, <<"H">>) >>,
      << Line(<<"n", "a">>, <<"H">>), Line(<<"(">>, <<"H">>) >>,
      << Line(<<"n", "a">>, <<"H">>), Malformed >> }

\* texts the recognition collaborator may return
RawTexts == {<<"N", "A", " ", "n", "a", "n">>, <<"a">>}

\* language codes the detector may return
Languages == {"en", "hi"}

\* texts translator.translate(...).text may hold
TransTexts == {<<"e">>, <<>>}

\* the ways create_transcript_file's try block may end
WriteResults == {"ok", "open_failed", "failed_empty", "failed_header"}

-----------------------------------------------------------------------------
(* Records *)

NoText == <<"#none">>

NotCalled == <<"#notcalled">>

\* error: the exception detect_and_transcribe caught; result: how process_file ended
EmptyRec == [file |-> NoPath, raw |-> NoText, norm |-> NoText, lang |-> "none",
             trans |-> NotCalled, final |-> NoText, error |-> "none", result |-> "none"]

NoFile == [exists |-> FALSE, src |-> NoPath, chunks |-> <<>>]

Header(base) == <<base, ":">>

\* what open(..., 'w') and the writes leave on disk for each way the try block ends
Written(p, transcript, w) ==
    CASE w = "ok" -> [exists |-> TRUE, src |-> p,
                      chunks |-> <<Header(OutputBase(p)), transcript>>]
      [] w = "failed_header" -> [exists |-> TRUE, src |-> p,
                                 chunks |-> <<Header(OutputBase(p))>>]
      [] w = "failed_empty" -> [exists |-> TRUE, src |-> p, chunks |-> <<>>]
      [] OTHER -> NoFile

\* the artifact of p is on disk, whole, and was written from p
OwnArtifact(o, p) ==
    /\ o[OutputBase(p)].exists
    /\ o[OutputBase(p)].src = p
    /\ Len(o[OutputBase(p)].chunks) = 2

Args(mode, path, recursive, translate) ==
    [mode |-> mode, path |-> path, recursive |-> recursive, translate |-> translate]

NoArgs == Args("none", NoPath, FALSE, FALSE)

\* command lines: --file <path> or --directory <path> [--recursive], [--translate]
ArgSpace ==
    {Args("file", p, FALSE, t) : p \in Paths, t \in BOOLEAN}
        \cup {Args("directory", p, r, t) : p \in {DirA, DirSub, AXWav},
                                            r \in BOOLEAN, t \in BOOLEAN}

-----------------------------------------------------------------------------
(* Initial state *)

\* create_transcript_file has not been called on its own
NoCall == [file |-> NoPath, transcript |-> <<>>, scores |-> <<>>, state |-> "none"]

NormIdle ==
    /\ ptext = <<>>
    /\ pprev = <<>>
    /\ pidx = 0
    /\ pin = <<>>
    /\ lidx = 0
    /\ wcall = NoCall

Init ==
    /\ dataset \in Datasets
    /\ tree \in Trees
    /\ HINGLISH_TO_HINDI = <<>>
    /\ out = [b \in OutBases |-> NoFile]
    /\ status = "idle"
    /\ args = NoArgs
    /\ walk = <<>>
    /\ todo = {}
    /\ pc = "idle"
    /\ rec = EmptyRec
    /\ passed = {}
    /\ recogCalls = {}
    /\ detectCalls = {}
    /\ transCalls = {}
    /\ outcome = {}
    /\ NormIdle

-----------------------------------------------------------------------------
(* main *)

\* a fresh process: the previous run has ended, its in-memory state is gone
StartRun(a) ==
    /\ status \in {"idle", "completed", "crashed"}
    /\ args' = a
    /\ pc' = "idle"
    /\ rec' = EmptyRec
    /\ passed' = {}
    /\ recogCalls' = {}
    /\ detectCalls' = {}
    /\ transCalls' = {}
    /\ outcome' = {}
    /\ HINGLISH_TO_HINDI' = load_hinglish_mapping(<<>>, dataset)
    /\ UNCHANGED <<dataset, tree, out, ptext, pprev, pidx,
                   pin, lidx, wcall>>

\* main: json.loads raises in load_hinglish_mapping, nothing catches it
MainLoadRaises(a) ==
    /\ StartRun(a)
    /\ LoadRaises(dataset)
    /\ status' = "crashed"
    /\ walk' = <<>>
    /\ todo' = {}

\* main with --file: process_file(file_path, args.translate)
MainFile(a) ==
    /\ StartRun(a)
    /\ ~LoadRaises(dataset)
    /\ a.mode = "file"
    /\ status' = "running"
    /\ walk' = <<>>
    /\ todo' = {a.path}

\* process_directory: the path is not a directory, log and return
MainDirectoryNotDir(a) ==
    /\ StartRun(a)
    /\ ~LoadRaises(dataset)
    /\ a.mode = "directory"
    /\ ~isdir(tree, a.path)
    /\ status' = "running"
    /\ walk' = <<>>
    /\ todo' = {}

\* process_directory, recursive: os.walk(directory_path)
MainDirectoryRecursive(a) ==
    /\ StartRun(a)
    /\ ~LoadRaises(dataset)
    /\ a.mode = "directory"
    /\ isdir(tree, a.path)
    /\ a.recursive
    /\ status' = "running"
    /\ walk' = <<a.path>>
    /\ todo' = {}

\* process_directory, not recursive: os.walk([directory_path]) raises TypeError
\* (os.fspath of a list) when the for loop asks for the first directory
MainDirectoryFlat(a) ==
    /\ StartRun(a)
    /\ ~LoadRaises(dataset)
    /\ a.mode = "directory"
    /\ isdir(tree, a.path)
    /\ ~a.recursive
    /\ status' = "crashed"
    /\ walk' = <<>>
    /\ todo' = {}

\* main: logging.info("Processing completed.")
Finish ==
    /\ status = "running"
    /\ pc = "idle"
    /\ todo = {}
    /\ walk = <<>>
    /\ status' = "completed"
    /\ UNCHANGED <<dataset, tree, HINGLISH_TO_HINDI, out, args, walk, todo, pc, rec,
                   passed, recogCalls, detectCalls, transCalls, outcome,
                   ptext, pprev, pidx,
                   pin, lidx, wcall>>

-----------------------------------------------------------------------------
(* process_directory *)

\* os.walk yields the next directory: its files, and its subdirectories to descend into
WalkNext ==
    /\ status = "running"
    /\ pc = "idle"
    /\ todo = {}
    /\ walk # <<>>
    /\ todo' = FilesIn(tree, Head(walk))
    /\ \E order \in Orders(DirsIn(tree, Head(walk))) : walk' = order \o Tail(walk)
    /\ UNCHANGED <<dataset, tree, HINGLISH_TO_HINDI, out, status, args, pc, rec,
                   passed, recogCalls, detectCalls, transCalls, outcome,
                   ptext, pprev, pidx,
                   pin, lidx, wcall>>

\* the loop body for a file is_supported_format rejects: nothing happens
LoopSkip ==
    /\ status = "running"
    /\ pc = "idle"
    /\ args.mode = "directory"
    /\ \E f \in todo :
        /\ ~is_supported_format(f)
        /\ todo' = todo \ {f}
    /\ UNCHANGED <<dataset, tree, HINGLISH_TO_HINDI, out, status, args, walk, pc, rec,
                   passed, recogCalls, detectCalls, transCalls, outcome,
                   ptext, pprev, pidx,
                   pin, lidx, wcall>>

-----------------------------------------------------------------------------
(* process_file *)

\* a caller that does not wait for process_file to return before the next call
HandedAnytime(f) ==
    /\ status = "running"
    /\ f \in todo
    /\ args.mode = "directory" => is_supported_format(f)

\* the file the caller hands to process_file next
Handed(f) ==
    /\ status = "running"
    /\ pc = "idle"
    /\ f \in todo
    /\ args.mode = "directory" => is_supported_format(f)

process_file_valid_and(t, f) == is_valid_file(t, f) \/ is_supported_format(f)

\* "if not is_valid_file(file_path) or not is_supported_format(file_path)" is false
process_file_valid(t, f) == is_valid_file(t, f) /\ is_supported_format(f)

EndFile(r) ==
    /\ rec' = r
    /\ outcome' = outcome \cup {<<r.file, r.result>>}
    /\ pc' = "idle"

\* process_file: validation fails, log and return
ProcessFileReject ==
    /\ \E f \in todo :
        /\ Handed(f)
        /\ ~process_file_valid(tree, f)
        /\ todo' = todo \ {f}
        /\ passed' = passed \cup {f}
        /\ EndFile([EmptyRec EXCEPT !.file = f, !.result = "invalid"])
    /\ UNCHANGED <<dataset, tree, HINGLISH_TO_HINDI, out, status, args, walk,
                   recogCalls, detectCalls, transCalls, ptext, pprev, pidx,
                   pin, lidx, wcall>>

\* process_file: validation passes, translate_audio_to_text is entered
ProcessFileAccept ==
    /\ \E f \in todo :
        /\ Handed(f)
        /\ process_file_valid(tree, f)
        /\ todo' = todo \ {f}
        /\ passed' = passed \cup {f}
        /\ rec' = [EmptyRec EXCEPT !.file = f, !.result = "running"]
        /\ pc' = "transcribe"
    /\ UNCHANGED <<dataset, tree, HINGLISH_TO_HINDI, out, status, args, walk,
                   recogCalls, detectCalls, transCalls, outcome, ptext, pprev, pidx,
                   pin, lidx, wcall>>

-----------------------------------------------------------------------------
(* detect_and_transcribe, translate_text, translate_audio_to_text *)

\* whether the artifact of the file was already there, whole, when a collaborator is called
Call(f) == [file |-> f, done |-> OwnArtifact(out, f)]

TranscriptIsNoneNever(t) == FALSE

\* "if transcript is None: return" of translate_audio_to_text and of process_file
TranscriptIsNone(t) == t = NoText

\* detect_and_transcribe returned (None, None): what its callers do with it
ReturnNone(error) ==
    IF TranscriptIsNone(NoText)
    THEN EndFile([rec EXCEPT !.error = error, !.result = error])
    ELSE /\ rec' = [rec EXCEPT !.error = error, !.final = NoText]
         /\ pc' = "persist"
         /\ UNCHANGED outcome

\* sr.AudioFile / recognizer.record raise: the service is never asked
TranscribeAudioError ==
    /\ pc = "transcribe"
    /\ ReturnNone("error")
    /\ UNCHANGED <<dataset, tree, HINGLISH_TO_HINDI, out, status, args, walk, todo,
                   passed, recogCalls, detectCalls, transCalls, ptext, pprev, pidx,
                   pin, lidx, wcall>>

\* recognizer.recognize_google returns text
TranscribeOk ==
    /\ pc = "transcribe"
    /\ recogCalls' = recogCalls \cup {Call(rec.file)}
    /\ \E raw \in RawTexts : rec' = [rec EXCEPT !.raw = raw]
    /\ pc' = "normalize"
    /\ UNCHANGED <<dataset, tree, HINGLISH_TO_HINDI, out, status, args, walk, todo,
                   passed, detectCalls, transCalls, outcome, ptext, pprev, pidx,
                   pin, lidx, wcall>>

\* recognizer.recognize_google raises UnknownValueError, RequestError or anything else
TranscribeFail ==
    /\ pc = "transcribe"
    /\ recogCalls' = recogCalls \cup {Call(rec.file)}
    /\ \E kind \in {"unknown_value", "request_error", "error"} : ReturnNone(kind)
    /\ UNCHANGED <<dataset, tree, HINGLISH_TO_HINDI, out, status, args, walk, todo,
                   passed, detectCalls, transCalls, ptext, pprev, pidx,
                   pin, lidx, wcall>>

\* preprocess_text(transcript) returns
NormalizeOk ==
    /\ pc = "normalize"
    /\ ~PreprocessRaises(HINGLISH_TO_HINDI)
    /\ rec' = [rec EXCEPT !.norm = preprocess_text(HINGLISH_TO_HINDI, rec.raw),
                          !.raw = PreprocessLeaves(HINGLISH_TO_HINDI, rec.raw)[2]]
    /\ HINGLISH_TO_HINDI' = PreprocessLeaves(HINGLISH_TO_HINDI, rec.raw)[1]
    /\ pc' = "detect"
    /\ UNCHANGED <<dataset, tree, out, status, args, walk, todo,
                   passed, recogCalls, detectCalls, transCalls, outcome,
                   ptext, pprev, pidx,
                   pin, lidx, wcall>>

\* preprocess_text(transcript) raises re.error, caught by "except Exception"
NormalizeRaises ==
    /\ pc = "normalize"
    /\ PreprocessRaises(HINGLISH_TO_HINDI)
    /\ ReturnNone("error")
    /\ UNCHANGED <<dataset, tree, HINGLISH_TO_HINDI, out, status, args, walk, todo,
                   passed, recogCalls, detectCalls, transCalls, ptext, pprev, pidx,
                   pin, lidx, wcall>>

\* detect(preprocessed_transcript) returns a language code
DetectOk ==
    /\ pc = "detect"
    /\ detectCalls' = detectCalls \cup {rec.file}
    /\ \E lang \in Languages : rec' = [rec EXCEPT !.lang = lang]
    /\ pc' = "translate"
    /\ UNCHANGED <<dataset, tree, HINGLISH_TO_HINDI, out, status, args, walk, todo,
                   passed, recogCalls, transCalls, outcome, ptext, pprev, pidx,
                   pin, lidx, wcall>>

\* detect(preprocessed_transcript) raises, caught by "except Exception"
DetectRaises ==
    /\ pc = "detect"
    /\ detectCalls' = detectCalls \cup {rec.file}
    /\ ReturnNone("error")
    /\ UNCHANGED <<dataset, tree, HINGLISH_TO_HINDI, out, status, args, walk, todo,
                   passed, recogCalls, transCalls, ptext, pprev, pidx,
                   pin, lidx, wcall>>

\* "if detected_language != 'en'": whether translate_text is called; the
\* translate_to_english parameter of process_file is not read anywhere
NeedsTranslation(lang, translate_to_english) == lang # "en"

translate_audio_to_text_result_unchecked(translated, transcript) == translated

\* "if translated_text: return translated_text" else "return transcript"
translate_audio_to_text_result(translated, transcript) ==
    IF translated # NoText /\ translated # <<>> THEN translated ELSE transcript

\* translate_audio_to_text: the transcript is already English
TranslateSkip ==
    /\ pc = "translate"
    /\ ~NeedsTranslation(rec.lang, args.translate)
    /\ rec' = [rec EXCEPT !.final = rec.norm]
    /\ pc' = "persist"
    /\ UNCHANGED <<dataset, tree, HINGLISH_TO_HINDI, out, status, args, walk, todo,
                   passed, recogCalls, detectCalls, transCalls, outcome,
                   ptext, pprev, pidx,
                   pin, lidx, wcall>>

\* translate_text: translator.translate(...).text returns
TranslateReturns ==
    /\ pc = "translate"
    /\ NeedsTranslation(rec.lang, args.translate)
    /\ transCalls' = transCalls \cup {Call(rec.file)}
    /\ \E t \in TransTexts :
        rec' = [rec EXCEPT !.trans = t,
                           !.final = translate_audio_to_text_result(t, rec.norm)]
    /\ pc' = "persist"
    /\ UNCHANGED <<dataset, tree, HINGLISH_TO_HINDI, out, status, args, walk, todo,
                   passed, recogCalls, detectCalls, outcome, ptext, pprev, pidx,
                   pin, lidx, wcall>>

\* translate_text: translator.translate raises, logged, None returned
TranslateRaises ==
    /\ pc = "translate"
    /\ NeedsTranslation(rec.lang, args.translate)
    /\ transCalls' = transCalls \cup {Call(rec.file)}
    /\ rec' = [rec EXCEPT !.trans = NoText,
                          !.final = translate_audio_to_text_result(NoText, rec.norm)]
    /\ pc' = "persist"
    /\ UNCHANGED <<dataset, tree, HINGLISH_TO_HINDI, out, status, args, walk, todo,
                   passed, recogCalls, detectCalls, outcome, ptext, pprev, pidx,
                   pin, lidx, wcall>>

-----------------------------------------------------------------------------
(* create_transcript_file *)

OutputExistsNever(o, p) == FALSE

\* os.path.exists(output_file_path)
OutputExists(o, p) == o[OutputBase(p)].exists

\* the output is there already: log and return
PersistExists ==
    /\ pc = "persist"
    /\ OutputExists(out, rec.file)
    /\ EndFile([rec EXCEPT !.result = "exists"])
    /\ UNCHANGED <<dataset, tree, HINGLISH_TO_HINDI, out, status, args, walk, todo,
                   passed, recogCalls, detectCalls, transCalls, ptext, pprev, pidx,
                   pin, lidx, wcall>>

\* the try block: open, write the header and the transcript; an error is logged
PersistWrite ==
    /\ pc = "persist"
    /\ ~OutputExists(out, rec.file)
    /\ \E w \in WriteResults :
        /\ out' = [out EXCEPT ![OutputBase(rec.file)] = Written(rec.file, rec.final, w)]
        /\ EndFile([rec EXCEPT !.result = IF w = "ok" THEN "written" ELSE "write_failed"])
    /\ UNCHANGED <<dataset, tree, HINGLISH_TO_HINDI, status, args, walk, todo,
                   passed, recogCalls, detectCalls, transCalls, ptext, pprev, pidx,
                   pin, lidx, wcall>>

-----------------------------------------------------------------------------
(* The program *)

Next ==
    \/ \E a \in ArgSpace : MainLoadRaises(a)
    \/ \E a \in ArgSpace : MainFile(a)
    \/ \E a \in ArgSpace : MainDirectoryNotDir(a)
    \/ \E a \in ArgSpace : MainDirectoryRecursive(a)
    \/ \E a \in ArgSpace : MainDirectoryFlat(a)
    \/ WalkNext
    \/ LoopSkip
    \/ ProcessFileReject
    \/ ProcessFileAccept
    \/ TranscribeAudioError
    \/ TranscribeOk
    \/ TranscribeFail
    \/ NormalizeOk
    \/ NormalizeRaises
    \/ DetectOk
    \/ DetectRaises
    \/ TranslateSkip
    \/ TranslateReturns
    \/ TranslateRaises
    \/ PersistExists
    \/ PersistWrite
    \/ Finish

Spec == Init /\ [][Next]_vars

-----------------------------------------------------------------------------
(* Claims about the pipeline, the writer and the walker *)

\* the run has ended, by "Processing completed." or by an uncaught exception
RunEnded == status \in {"completed", "crashed"}

\* a directory batch over an existing directory that got past the lexicon load
DirectoryBatch ==
    /\ args.mode = "directory"
    /\ isdir(tree, args.path)
    /\ ~LoadRaises(dataset)

IsPrefix(s, t) == Len(s) <= Len(t) /\ SubSeq(t, 1, Len(s)) = s

\* the regular files of the directory itself, or of its whole subtree
FilesUnder(t, d, recursive) ==
    {PathOf(n) : n \in {m \in t : /\ m.kind = "file"
                                  /\ IF recursive THEN IsPrefix(AsDir(d), m.dir)
                                                  ELSE m.dir = AsDir(d)}}

SupportedUnder(t, d, recursive) ==
    {f \in FilesUnder(t, d, recursive) : is_supported_format(f)}

\* C1: a run over a file whose artifact is already on disk, written whole by an
\* earlier run over that file, calls neither the recognition nor the translation
\* collaborator (it stops at the output-existence check).
C1_SecondRunCallsNothing == \A c \in recogCalls \cup transCalls : ~c.done

\* C2: when a directory batch has ended, the files handed to the audio pipeline are
\* exactly the supported files of the directory itself (recursive false) or of its
\* whole subtree (recursive true).
C2_DirectoryRecursion ==
    (RunEnded /\ DirectoryBatch)
        => passed = SupportedUnder(tree, args.path, args.recursive)

\* the recursive half of C2, which the code does satisfy
C2_RecursiveWalkComplete ==
    (RunEnded /\ DirectoryBatch /\ args.recursive)
        => passed = SupportedUnder(tree, args.path, TRUE)

\* C3: a directory batch, recursive or not, ends by normal completion, and every
\* supported file it enumerates has been through process_file to some end,
\* whatever happened to the other files.
C3_BatchContainment ==
    (RunEnded /\ DirectoryBatch)
        => /\ status = "completed"
           /\ \A f \in SupportedUnder(tree, args.path, args.recursive) :
                  \E r \in {"invalid", "unknown_value", "request_error", "error",
                            "written", "exists", "write_failed"} : <<f, r>> \in outcome

\* the recursive half of C3, which the code does satisfy
C3_RecursiveBatchContained ==
    (RunEnded /\ DirectoryBatch /\ args.recursive)
        => /\ status = "completed"
           /\ \A f \in SupportedUnder(tree, args.path, TRUE) : \E r \in
                  {"invalid", "unknown_value", "request_error", "error",
                   "written", "exists", "write_failed"} : <<f, r>> \in outcome

\* process_file has returned for a file whose language was not "en" and whose
\* translation raised
TranslationFailed ==
    /\ pc = "idle"
    /\ rec.lang \notin {"en", "none"}
    /\ rec.trans = NoText
    /\ rec.error = "none"

\* C4 as stated: after a failed translation the writer gets the normalized text,
\* an artifact exists for the file, and nothing propagates out of process_file.
C4_FallbackAlwaysProducesArtifact ==
    TranslationFailed
        => /\ rec.final = rec.norm
           /\ rec.result \in {"written", "exists", "write_failed"}
           /\ out[OutputBase(rec.file)].exists
           /\ status # "crashed"

\* C4 amended: after a failed translation the writer is called with the normalized
\* text and nothing propagates out of process_file; the artifact exists afterwards
\* unless the write itself failed, and a completed write holds the normalized text.
C4_TranslationFallback ==
    TranslationFailed
        => /\ rec.final = rec.norm
           /\ rec.norm # NoText
           /\ rec.result \in {"written", "exists", "write_failed"}
           /\ rec.result # "write_failed" => out[OutputBase(rec.file)].exists
           /\ rec.result = "written"
                  => out[OutputBase(rec.file)] = Written(rec.file, rec.norm, "ok")
           /\ status # "crashed"

C4_Witness == TranslationFailed /\ rec.result = "written"

\* C6: an artifact that is on disk is never written again: no step of any run
\* changes the content of an output file that exists.
C6_NoOverwrite == [][\A b \in OutBases : out[b].exists => out'[b] = out[b]]_vars

\* create_transcript_file was called for a file whose output was there and returned
C6_Witness ==
    /\ pc = "idle"
    /\ rec.result = "exists"
    /\ out[OutputBase(rec.file)].exists

\* C7: every file of the run that reached the writer without a write error has an
\* artifact of its own: the output file of its base name was written from it.
C7_OneOutputPerInput ==
    pc = "idle"
        => \A f \in passed :
               (<<f, "written">> \in outcome \/ <<f, "exists">> \in outcome)
                   => out[OutputBase(f)].src = f

\* C8: without --translate the translation collaborator is never called and the
\* transcript handed to the writer is the normalized text.
C8_TranslateOnlyOnRequest ==
    ~args.translate
        => /\ transCalls = {}
           /\ rec.final # NoText => rec.final = rec.norm

\* a path process_file must turn away: missing, not a regular file, or with an
\* extension outside the seven supported ones
Unacceptable(f) == ~is_valid_file(tree, f) \/ ~is_supported_format(f)

\* C9: no collaborator is ever called for, and no artifact ever written from, a path
\* that is missing, not a regular file or of an unsupported format; process_file
\* ends such a path as invalid; a directory batch hands on supported files only.
C9_ValidationGating ==
    /\ \A c \in recogCalls \cup transCalls : ~Unacceptable(c.file)
    /\ \A f \in detectCalls : ~Unacceptable(f)
    /\ \A b \in OutBases : out[b].exists => ~Unacceptable(out[b].src)
    /\ \A f \in passed : Unacceptable(f) => (rec.file = f => rec.result = "invalid")
    /\ args.mode = "directory" => \A f \in passed : is_supported_format(f)

\* process_file turned away a regular file for its extension alone
C9_Witness ==
    /\ rec.result = "invalid"
    /\ is_valid_file(tree, rec.file)
    /\ out[OutputBase(rec.file)] = NoFile

\* C10: when detect_and_transcribe caught an exception for a file (recognition,
\* normalization or language detection), process_file ends without calling the
\* translator or the writer for it, so no artifact is created from it.
C10_RecognitionFailureNoOutput ==
    rec.error # "none"
        => /\ pc = "idle"
           /\ rec.result = rec.error
           /\ rec.final = NoText
           /\ \A c \in transCalls : c.file # rec.file
           /\ \A b \in OutBases :
                  (out[b].exists /\ out[b].src = rec.file /\ Len(out[b].chunks) = 2)
                      => out[b].chunks[2] # NoText

\* the recognizer could not understand the audio of a file with no artifact yet
C10_Witness ==
    /\ rec.error = "unknown_value"
    /\ pc = "idle"
    /\ ~out[OutputBase(rec.file)].exists

-----------------------------------------------------------------------------
(* preprocess_text on its own: one loop iteration per step *)

TextChars == {"n", "N", "a", " ", "."}

RECURSIVE SeqsUpTo(_, _)
SeqsUpTo(S, n) ==
    IF n = 0 THEN {<<>>}
    ELSE LET shorter == SeqsUpTo(S, n - 1)
         IN shorter \cup {Append(t, c) : t \in {u \in shorter : Len(u) = n - 1}, c \in S}

Texts == SeqsUpTo(TextChars, MaxTextLen)

\* lexicon keys as load_hinglish_mapping stores them: lower-cased, any characters
NormKeys == {<<"n">>, <<"a">>, <<"n", "a">>, <<"n", ".">>}

NormValues == {<<"H">>, <<"a">>}

NormLexicons ==
    {<< <<k, v>> >> : k \in NormKeys, v \in NormValues}
        \cup {lex \in {<< <<k1, v1>>, <<k2, v2>> >> :
                             k1 \in NormKeys, v1 \in NormValues,
                             k2 \in NormKeys, v2 \in NormValues} :
                  lex[1][1] # lex[2][1]}

InitNorm ==
    /\ dataset = <<>>
    /\ tree = {}
    /\ HINGLISH_TO_HINDI \in NormLexicons
    /\ out = [b \in OutBases |-> NoFile]
    /\ status = "idle"
    /\ args = NoArgs
    /\ walk = <<>>
    /\ todo = {}
    /\ pc = "idle"
    /\ rec = EmptyRec
    /\ passed = {}
    /\ recogCalls = {}
    /\ detectCalls = {}
    /\ transCalls = {}
    /\ outcome = {}
    /\ ptext \in Texts
    /\ pprev = ptext
    /\ pidx = 0
    /\ pin = ptext
    /\ lidx = 0
    /\ wcall = NoCall

\* one iteration of "for hinglish, hindi in HINGLISH_TO_HINDI.items()"
PreprocessStep ==
    /\ pidx < Len(HINGLISH_TO_HINDI)
    /\ Compiles(ItemAt(HINGLISH_TO_HINDI, pidx + 1)[1])
    /\ pprev' = ptext
    /\ ptext' = ReSub(ItemAt(HINGLISH_TO_HINDI, pidx + 1)[1],
                      ItemAt(HINGLISH_TO_HINDI, pidx + 1)[2], ptext)
    /\ pidx' = pidx + 1
    /\ UNCHANGED <<dataset, HINGLISH_TO_HINDI, pin, lidx, wcall>>
    /\ UNCHANGED pipelineVars

NextNorm == PreprocessStep

SpecNorm == InitNorm /\ [][NextNorm]_vars

-----------------------------------------------------------------------------
(* Claims about preprocess_text *)

\* the key occurs in s at offset i, letter for letter, in any letter case
OccursAt(s, key, i) ==
    /\ i + Len(key) <= Len(s)
    /\ \A j \in 1..Len(key) : LowerChar(s[i + j]) = LowerChar(key[j])

\* the occurrence at offset i is a whole word: an alphanumeric-token boundary on each side
WholeWordAt(s, key, i) ==
    /\ OccursAt(s, key, i)
    /\ WordBoundary(s, i)
    /\ WordBoundary(s, i + Len(key))

\* s with every whole-word occurrence of key replaced by repl, left to right
RECURSIVE WholeWordReplaceFrom(_, _, _, _)
WholeWordReplaceFrom(s, key, repl, i) ==
    IF i >= Len(s) THEN <<>>
    ELSE IF WholeWordAt(s, key, i)
         THEN repl \o WholeWordReplaceFrom(s, key, repl, i + Len(key))
         ELSE <<s[i + 1]>> \o WholeWordReplaceFrom(s, key, repl, i + 1)

IsAlnumKey(key) == \A j \in 1..Len(key) : IsWordChar(key[j])

\* C5: the substitution made for a lexicon pair replaces every whole-word
\* occurrence of hinglish, in any letter case, by hindi, and changes nothing else.
C5_WholeWordSubstitution ==
    pidx > 0
        => ptext = WholeWordReplaceFrom(pprev, HINGLISH_TO_HINDI[pidx][1],
                                        HINGLISH_TO_HINDI[pidx][2], 0)

\* C5 holds of the code for keys made of alphanumeric characters only
C5_AlnumKeysOnly ==
    (pidx > 0 /\ IsAlnumKey(HINGLISH_TO_HINDI[pidx][1]))
        => ptext = WholeWordReplaceFrom(pprev, HINGLISH_TO_HINDI[pidx][1],
                                        HINGLISH_TO_HINDI[pidx][2], 0)

-----------------------------------------------------------------------------
(* load_hinglish_mapping on its own: one dataset line per step *)

\* what a well-formed line may hold in translation.hi_ng (absent, empty, any case)
LoadHinglish == {Missing, <<>>, <<"N", "a">>, <<"n", "a">>, <<"a">>}

\* what a well-formed line may hold in translation.en
LoadHindi == {Missing, <<"H">>, <<"a">>}

LoadLines == {Line(h, e) : h \in LoadHinglish, e \in LoadHindi} \cup {Malformed}

RECURSIVE LinesUpTo(_)
LinesUpTo(n) ==
    IF n = 0 THEN {<<>>}
    ELSE LET shorter == LinesUpTo(n - 1)
         IN shorter \cup {Append(d, l) : d \in {u \in shorter : Len(u) = n - 1},
                                          l \in LoadLines}

LoadDatasets == LinesUpTo(MaxLines)

InitLoad ==
    /\ dataset \in LoadDatasets
    /\ tree = {}
    /\ HINGLISH_TO_HINDI = <<>>
    /\ out = [b \in OutBases |-> NoFile]
    /\ status = "idle"
    /\ args = NoArgs
    /\ walk = <<>>
    /\ todo = {}
    /\ pc = "idle"
    /\ rec = EmptyRec
    /\ passed = {}
    /\ recogCalls = {}
    /\ detectCalls = {}
    /\ transCalls = {}
    /\ outcome = {}
    /\ NormIdle

\* the body of the loop for one line: the two .get calls and the dict assignment
LoadEntry(lex, line) ==
    DictSet(lex, Lower(GetField(line.hi_ng)), GetField(line.en))

\* one iteration of "for line in f": the line parses
LoadLine ==
    /\ status = "idle"
    /\ lidx < Len(dataset)
    /\ dataset[lidx + 1] # Malformed
    /\ HINGLISH_TO_HINDI' = LoadEntry(HINGLISH_TO_HINDI, dataset[lidx + 1])
    /\ lidx' = lidx + 1
    /\ UNCHANGED <<dataset, ptext, pprev, pidx, pin, wcall>>
    /\ UNCHANGED pipelineVars

\* one iteration of "for line in f": json.loads raises, the load is abandoned
LoadLineRaises ==
    /\ status = "idle"
    /\ lidx < Len(dataset)
    /\ dataset[lidx + 1] = Malformed
    /\ status' = "crashed"
    /\ UNCHANGED <<dataset, HINGLISH_TO_HINDI, tree, out, args, walk, todo, pc, rec,
                   passed, recogCalls, detectCalls, transCalls, outcome,
                   ptext, pprev, pidx, pin, lidx, wcall>>

NextLoad == LoadLine \/ LoadLineRaises

SpecLoad == InitLoad /\ [][NextLoad]_vars

-----------------------------------------------------------------------------
(* Claims about load_hinglish_mapping *)

\* load_hinglish_mapping has read every line and returned
Loaded == status = "idle" /\ lidx = Len(dataset)

\* the key a dataset line is stored under
KeyOfLine(line) == Lower(GetField(line.hi_ng))

\* C11: every key of the lexicon is a non-empty, lower-cased string, whatever
\* well-formed lines were loaded.
C11_KeysNonEmptyLowerCase ==
    \A i \in 1..Len(HINGLISH_TO_HINDI) :
        /\ HINGLISH_TO_HINDI[i][1] # <<>>
        /\ \A j \in 1..Len(HINGLISH_TO_HINDI[i][1]) :
               HINGLISH_TO_HINDI[i][1][j] \notin UpperLetters

\* the lower-casing half of C11, which the code does satisfy
C11_KeysLowerCase ==
    \A i \in 1..Len(HINGLISH_TO_HINDI) :
        \A j \in 1..Len(HINGLISH_TO_HINDI[i][1]) :
            HINGLISH_TO_HINDI[i][1][j] \notin UpperLetters

\* C14: lines whose Hinglish fields are equal after lower-casing share one key of
\* the lexicon, and its value is the Hindi field of the last of them read.
C14_LastDuplicateWins ==
    /\ \A i, j \in 1..Len(HINGLISH_TO_HINDI) :
           HINGLISH_TO_HINDI[i][1] = HINGLISH_TO_HINDI[j][1] => i = j
    /\ \A n \in 1..lidx :
           (\A m \in (n + 1)..lidx : KeyOfLine(dataset[m]) # KeyOfLine(dataset[n]))
               => \E i \in 1..Len(HINGLISH_TO_HINDI) :
                      HINGLISH_TO_HINDI[i] =
                          <<KeyOfLine(dataset[n]), GetField(dataset[n].en)>>

\* "Na" then "na" with different Hindi fields were loaded into one entry
C14_Witness ==
    /\ Loaded
    /\ Len(dataset) = 2
    /\ dataset[1].hi_ng = <<"N", "a">>
    /\ dataset[2].hi_ng = <<"n", "a">>
    /\ dataset[1].en = <<"H">>
    /\ dataset[2].en = <<"a">>
    /\ HINGLISH_TO_HINDI = << <<(<<"n", "a">>), (<<"a">>)>> >>

-----------------------------------------------------------------------------
(* create_transcript_file on its own, with confidence scores *)

\* confidence_scores=None
NoScores == <<-1>>

\* "if confidence_scores:" is true of a sequence that is there and not empty
ScoresGiven(scores) == scores # NoScores /\ scores # <<>>

\* str.split() from offset i of s, tok being the token under construction:
\* the maximal runs of characters that are not whitespace
RECURSIVE SplitFrom(_, _, _)
SplitFrom(s, i, tok) ==
    IF i > Len(s) THEN (IF tok = <<>> THEN <<>> ELSE <<tok>>)
    ELSE IF s[i] = " "
         THEN (IF tok = <<>> THEN <<>> ELSE <<tok>>) \o SplitFrom(s, i + 1, <<>>)
         ELSE SplitFrom(s, i + 1, Append(tok, s[i]))

\* transcript.split()
Split(s) == SplitFrom(s, 1, <<>>)

Min(a, b) == IF a <= b THEN a ELSE b

Max(a, b) == IF a >= b THEN a ELSE b

\* itertools.zip_longest in place of zip: the shorter side padded
ZipLongest(a, b) ==
    [i \in 1..Max(Len(a), Len(b)) |->
        <<IF i <= Len(a) THEN a[i] ELSE <<>>, IF i <= Len(b) THEN b[i] ELSE 0>>]

\* zip(a, b): pairs by position, as many as the shorter sequence has
Zip(a, b) == [i \in 1..Min(Len(a), Len(b)) |-> <<a[i], b[i]>>]

\* f"{confidence:.2f}": a score in thousandths shown in hundredths (no score
\* used here lies half way between two hundredths)
Format2f(score) == (score + 5) \div 10

\* f"\n  - {word} ({confidence:.2f})"
Annotation(pair) == <<"  - ", pair[1], Format2f(pair[2])>>

\* the lines the for loop over zip(transcript.split(), confidence_scores) writes
AnnotationLines(transcript, scores) ==
    IF ScoresGiven(scores)
    THEN LET pairs == Zip(Split(transcript), scores)
         IN [i \in 1..Len(pairs) |-> Annotation(pairs[i])]
    ELSE <<>>

\* what a write that completes leaves on disk: header, transcript, annotation lines
WrittenWithScores(p, transcript, scores, w) ==
    IF w = "ok"
    THEN [exists |-> TRUE, src |-> p,
          chunks |-> <<Header(OutputBase(p)), transcript>>
                         \o AnnotationLines(transcript, scores)]
    ELSE Written(p, transcript, w)

\* scores in thousandths
ScoreValues == {12, 987}

RECURSIVE ScoresUpTo(_)
ScoresUpTo(n) ==
    IF n = 0 THEN {<<>>}
    ELSE LET shorter == ScoresUpTo(n - 1)
         IN shorter \cup {Append(t, c) : t \in {u \in shorter : Len(u) = n - 1},
                                          c \in ScoreValues}

ScoreLists == ScoresUpTo(MaxScores) \cup {NoScores}

Transcripts == SeqsUpTo({"a", "n", " "}, MaxTextLen)

InitWrite ==
    /\ dataset = <<>>
    /\ tree = {}
    /\ HINGLISH_TO_HINDI = <<>>
    /\ \E before \in {NoFile, Written(AXWav, <<"H">>, "ok")} :
           out = [b \in OutBases |-> IF b = OutputBase(AXWav) THEN before ELSE NoFile]
    /\ status = "idle"
    /\ args = NoArgs
    /\ walk = <<>>
    /\ todo = {}
    /\ pc = "idle"
    /\ rec = EmptyRec
    /\ passed = {}
    /\ recogCalls = {}
    /\ detectCalls = {}
    /\ transCalls = {}
    /\ outcome = {}
    /\ ptext = <<>>
    /\ pprev = <<>>
    /\ pidx = 0
    /\ pin = <<>>
    /\ lidx = 0
    /\ \E t \in Transcripts, sc \in ScoreLists :
           wcall = [file |-> AXWav, transcript |-> t, scores |-> sc, state |-> "called"]

\* create_transcript_file: the output is there already, log and return
WriteExists ==
    /\ wcall.state = "called"
    /\ OutputExists(out, wcall.file)
    /\ wcall' = [wcall EXCEPT !.state = "exists"]
    /\ UNCHANGED <<dataset, tree, HINGLISH_TO_HINDI, out, status, args, walk, todo, pc,
                   rec, passed, recogCalls, detectCalls, transCalls, outcome,
                   ptext, pprev, pidx, pin, lidx>>

\* create_transcript_file: the try block, to its end or to a logged I/O error
WriteFile ==
    /\ wcall.state = "called"
    /\ ~OutputExists(out, wcall.file)
    /\ \E w \in WriteResults :
        /\ out' = [out EXCEPT ![OutputBase(wcall.file)] =
                       WrittenWithScores(wcall.file, wcall.transcript, wcall.scores, w)]
        /\ wcall' = [wcall EXCEPT !.state = IF w = "ok" THEN "written" ELSE "write_failed"]
    /\ UNCHANGED <<dataset, tree, HINGLISH_TO_HINDI, status, args, walk, todo, pc,
                   rec, passed, recogCalls, detectCalls, transCalls, outcome,
                   ptext, pprev, pidx, pin, lidx>>

NextWrite == WriteExists \/ WriteFile

SpecWrite == InitWrite /\ [][NextWrite]_vars

-----------------------------------------------------------------------------
(* Claims about create_transcript_file with confidence scores *)

\* the number of whitespace-separated tokens of s: the places where a token starts
TokenCount(s) ==
    Cardinality({i \in 1..Len(s) : s[i] # " " /\ (i = 1 \/ s[i - 1] = " ")})

\* what the file holds after the header and the transcript
AnnotationsOnDisk == 
    LET chunks == out[OutputBase(wcall.file)].chunks
    IN SubSeq(chunks, 3, Len(chunks))

\* C12: a completed write holds one annotation line per positional (token, score)
\* pair, as many as the shorter of the two sequences has, and none when the scores
\* are absent or empty; a call never ends otherwise than written, skipped or by a
\* logged I/O error, whatever the two lengths.
C12_ConfidencePairing ==
    /\ wcall.state \in {"none", "called", "written", "exists", "write_failed"}
    /\ wcall.state = "written"
           => /\ Len(AnnotationsOnDisk) =
                     IF wcall.scores = NoScores \/ wcall.scores = <<>>
                     THEN 0
                     ELSE Min(TokenCount(wcall.transcript), Len(wcall.scores))
              /\ \A i \in 1..Len(AnnotationsOnDisk) :
                     /\ AnnotationsOnDisk[i][2] = Split(wcall.transcript)[i]
                     /\ AnnotationsOnDisk[i][3] = Format2f(wcall.scores[i])

\* a completed write with more scores than tokens, and at least one token
C12_Witness ==
    /\ wcall.state = "written"
    /\ TokenCount(wcall.transcript) = 1
    /\ Len(wcall.scores) = 3
    /\ wcall.scores # NoScores
    /\ Len(AnnotationsOnDisk) = 1

-----------------------------------------------------------------------------
(* Further claims about the pipeline *)

\* translate_text returned a text for the last file, without raising
TranslationReturned ==
    /\ rec.lang \notin {"en", "none"}
    /\ rec.trans # NotCalled
    /\ rec.trans # NoText

\* C13: when the language is not English and the translator returns without
\* raising, the text it returned, even an empty one, is the final transcript.
C13_TranslationSupersedes == TranslationReturned => rec.final = rec.trans

\* C13 holds of the code when the returned text is not empty
C13_NonEmptyTranslationSupersedes ==
    (TranslationReturned /\ rec.trans # <<>>) => rec.final = rec.trans

-----------------------------------------------------------------------------
(* Further claims about preprocess_text *)

\* C15: the entries are applied in insertion order, each to the result of the one
\* before: after the first entry the text is its substitution on the input, after
\* the second it is the second entry's substitution on that result.
C15_InsertionOrder ==
    /\ pidx = 0 => ptext = pin
    /\ pidx >= 1
           => LET first == ReSub(HINGLISH_TO_HINDI[1][1], HINGLISH_TO_HINDI[1][2], pin)
              IN /\ pidx = 1 => (pprev = pin /\ ptext = first)
                 /\ pidx = 2
                        => /\ pprev = first
                           /\ ptext = ReSub(HINGLISH_TO_HINDI[2][1],
                                            HINGLISH_TO_HINDI[2][2], first)

\* the replacement the first entry produced was a whole-word match of the second
\* key, and the second entry rewrote it
C15_Witness ==
    /\ HINGLISH_TO_HINDI = << <<(<<"n">>), (<<"a">>)>>, <<(<<"a">>), (<<"H">>)>> >>
    /\ pidx = 2
    /\ pin = <<"n">>
    /\ pprev = <<"a">>
    /\ ptext = <<"H">>

-----------------------------------------------------------------------------
(* Stage order *)

WriterResults == {"written", "exists", "write_failed"}

Ended(f) == \E r \in {"invalid", "unknown_value", "request_error", "error"}
                         \cup WriterResults : <<f, r>> \in outcome

\* what the record of a file shows of the stages that have run for it: each stage
\* has the result of the one before it
StagesInOrder ==
    /\ rec.raw # NoText => process_file_valid(tree, rec.file)
    /\ rec.norm # NoText => rec.raw # NoText
    /\ rec.lang # "none" => rec.norm # NoText
    /\ rec.trans # NotCalled => rec.lang \notin {"none", "en"}
    /\ rec.final # NoText => rec.lang # "none"
    /\ rec.result \in WriterResults => (rec.final # NoText /\ rec.error = "none")
    /\ \A c \in recogCalls : c.file = rec.file => process_file_valid(tree, rec.file)
    /\ rec.file \in detectCalls => rec.norm # NoText
    /\ \A c \in transCalls : c.file = rec.file => rec.lang \notin {"none", "en"}

\* where process_file is, against what has run
StageMatchesRecord ==
    /\ pc = "transcribe" => (process_file_valid(tree, rec.file) /\ rec.raw = NoText)
    /\ pc = "normalize" => (rec.raw # NoText /\ rec.norm = NoText)
    /\ pc = "detect" => (rec.norm # NoText /\ rec.lang = "none")
    /\ pc = "translate" => (rec.lang # "none" /\ rec.final = NoText)
    /\ pc = "persist" => (rec.final # NoText /\ rec.result = "running")

\* one file at a time: every file handed to process_file before the current one has
\* ended, and the collaborators were only ever called for files handed over
OneFileAtATime ==
    /\ pc # "idle" => (rec.result = "running" /\ rec.file \in passed)
    /\ \A f \in passed : (pc = "idle" \/ f # rec.file) => Ended(f)
    /\ \A c \in recogCalls \cup transCalls : c.file \in passed
    /\ detectCalls \subseteq passed

\* C16: for every file the stages run in the order validate, transcribe,
\* normalize, detect, translate, persist, each on the result of the one before,
\* and in a batch no stage of a file runs before the files handed over earlier
\* have ended.
C16_StageOrder == StagesInOrder /\ StageMatchesRecord /\ OneFileAtATime

\* the second file of a batch is at the writer and the first has ended
C16_Witness ==
    /\ pc = "persist"
    /\ Cardinality(passed) = 2
    /\ \E f \in passed : f # rec.file /\ Ended(f)

-----------------------------------------------------------------------------
(* The lexicon after startup *)

\* C17: once main has loaded the lexicon, no step of the run changes it, and
\* normalization leaves the recognised text it was given as it was.
C17_LexiconImmutable ==
    [][status = "running"
           => /\ HINGLISH_TO_HINDI' = HINGLISH_TO_HINDI
              /\ (pc = "normalize" /\ pc' = "detect") => rec'.raw = rec.raw]_vars

\* normalization has substituted a word of a file, on a lexicon that has entries
C17_Witness ==
    /\ status = "running"
    /\ pc = "detect"
    /\ Len(HINGLISH_TO_HINDI) > 0
    /\ rec.norm # rec.raw
    /\ HINGLISH_TO_HINDI = load_hinglish_mapping(<<>>, dataset)

-----------------------------------------------------------------------------
(* Artifacts after failed writes *)

\* the file on disk holds the header of its basename and a transcript after it
Complete(o, base) ==
    /\ Len(o[base].chunks) = 2
    /\ o[base].chunks[1] = Header(base)

\* C18: every output artifact that exists holds the header line "<basename>:"
\* followed by the complete final transcript, also after a write that failed
\* part-way, and no input is skipped on account of a partial or empty artifact.
C18_ArtifactsComplete ==
    /\ \A base \in OutBases : out[base].exists => Complete(out, base)
    /\ \A f \in Paths : <<f, "exists">> \in outcome => Complete(out, OutputBase(f))

====
